---- MODULE Spec2Model ----
(***************************************************************************)
(* TruthLens verification pipeline: the API handlers of api.py drive the   *)
(* VerificationEngine (verification_engine.py), which composes the         *)
(* LLMInterface (llm_interface.py) and the SearchModule (search_module.py).*)
(* Python dictionaries are records; d.get(k, default) is Get(d, k, default)*)
(***************************************************************************)
EXTENDS Integers, Sequences, FiniteSets, TLC

VARIABLES
    llm_provider,     \* LLMInterface.provider (Config.LLM_PROVIDER)
    search_provider,  \* SearchModule.provider (Config.SEARCH_PROVIDER)
    last_citations,   \* LLMInterface._last_citations
    pc,               \* position of the request being handled
    request,          \* body of the request being handled
    entry,            \* which engine entry point the request runs
    question,         \* the request's question
    answer,           \* generated or caller-supplied answer
    search_queries,   \* output of generate_search_queries
    futures,          \* future_to_query: one future per submitted query
    elapsed,          \* seconds since the queries were submitted
    all_sources,      \* the merged list
    unique_sources,   \* output of _deduplicate_sources
    verification,     \* value returned by verify_claims
    results,          \* the bundle returned by the entry point
    risk_data,        \* value returned by calculate_hallucination_risk
    perplexity_sources, \* sources converted from the retained citations
    response,         \* HTTP response of the handler
    calls             \* outbound calls made by the current run

vars == <<llm_provider, search_provider, last_citations, pc, request, entry,
          question,
          answer, search_queries, futures, elapsed, all_sources,
          perplexity_sources, unique_sources, verification, results, risk_data, response, calls>>

-----------------------------------------------------------------------------
(* Bounds of the model *)

MaxItems == 1       \* most items one provider response carries
MaxClaims == 2      \* most claims of a Verification drawn for the risk scorer
SlowSearch == 20    \* seconds a slow search takes
TickStep == 5
MaxQuestionLen == 3   \* longest question built from QuestionChars
MaxSources == 4       \* longest source list given to _format_sources
MaxOver == 3          \* answers are up to FALLBACK_TEXT_MAX + MaxOver long
MaxBackendItems == 4  \* most results a search backend hands back       \* seconds the clock advances in one step

(* Program constants *)

MAX_SEARCH_RESULTS == 3
SEARCH_TIMEOUT == 15
RISK_LOW_MIN == 80
RISK_MEDIUM_MIN == 50
DEFAULT_CONFIDENCE == 50
FALLBACK_CONFIDENCE == 50
SERVER_ERROR == 500
KEY_TERMS_MIN_LEN == 10
MAX_QUERIES == 2
FALLBACK_TEXT_MAX == 200
MAX_CONFIDENCE == 100

-----------------------------------------------------------------------------
(* Dictionaries and sequences *)

Get(d, key, default) == IF key \in DOMAIN d THEN d[key] ELSE default

SeqsUpTo(S, n) == UNION {[1..k -> S] : k \in 0..n}

Take(s, n) == SubSeq(s, 1, IF n < Len(s) THEN n ELSE Len(s))

RECURSIVE Strip(_)
Strip(s) ==
    IF Len(s) > 0 /\ SubSeq(s, 1, 1) = " " THEN Strip(SubSeq(s, 2, Len(s)))
    ELSE IF Len(s) > 0 /\ SubSeq(s, Len(s), Len(s)) = " "
         THEN Strip(SubSeq(s, 1, Len(s) - 1))
         ELSE s

Range(s) == {s[i] : i \in 1..Len(s)}

-----------------------------------------------------------------------------
(* Inputs: what the environment (caller, model backends, search backends)  *)
(* can hand to the program.                                                *)

Questions == {"what is x?"}
SuppliedAnswers == {" x is y. "}     \* an answer the caller did not trim
Contents == {"x is y.", " x is y. "}          \* message.content of the generator
FailureReasons == {"auth", "network"}
CitationLists == {<<>>, <<"c1">>, <<"c1", "c2">>}
Durations == {0, SlowSearch}

\* Native result of the DuckDuckGo backend: keys title, body, href.
DdgItems ==
    {[title |-> "t1", body |-> "s", href |-> "a"],
     [title |-> "t2", body |-> "s", href |-> "a"],
     [title |-> "t1", body |-> "s", href |-> "b"],
     [title |-> "t1", body |-> "s"]}

\* Native result of SerpAPI: keys title, snippet, link.
SerpItems ==
    {[title |-> "t1", snippet |-> "s", link |-> "a"],
     [title |-> "t2", snippet |-> "s", link |-> "a"],
     [title |-> "t1", snippet |-> "s", link |-> "b"],
     [title |-> "t1", snippet |-> "s"]}

\* A provider response: the items the backend yields, and whether an
\* exception is raised after they were read (with no item: the call itself
\* failed).
ProviderResponses(provider) ==
    [items : SeqsUpTo(IF provider = "duckduckgo" THEN DdgItems ELSE SerpItems,
                      MaxItems),
     error : BOOLEAN]

-----------------------------------------------------------------------------
(* SearchModule (search_module.py) *)

NormalizeDdg(result) ==
    [title |-> Get(result, "title", ""),
     snippet |-> Get(result, "body", ""),
     url |-> Get(result, "href", "")]

NormalizeSerp(result) ==
    [title |-> Get(result, "title", ""),
     snippet |-> Get(result, "snippet", ""),
     url |-> Get(result, "link", "")]

\* The function's own try/except swallows the exception; `return results`
\* hands back whatever had been appended when it was raised.
_search_duckduckgo(resp, max_results) ==
    [raised |-> FALSE,
     value |-> [i \in 1..Len(resp.items) |-> NormalizeDdg(resp.items[i])]]

_search_serpapi(resp, max_results) ==
    LET organic_results == Take(resp.items, max_results)
    IN  [raised |-> FALSE,
         value |-> [i \in 1..Len(organic_results) |->
                        NormalizeSerp(organic_results[i])]]

search(provider, resp, max_results) ==
    LET r == IF provider = "duckduckgo"
             THEN _search_duckduckgo(resp, max_results)
             ELSE _search_serpapi(resp, max_results)
    IN  IF r.raised THEN <<>> ELSE r.value

RECURSIVE ReplaceAll(_, _, _)
ReplaceAll(s, old, new) ==
    IF Len(s) < Len(old) THEN s
    ELSE IF SubSeq(s, 1, Len(old)) = old
         THEN new \o ReplaceAll(SubSeq(s, Len(old) + 1, Len(s)), old, new)
         ELSE SubSeq(s, 1, 1) \o ReplaceAll(SubSeq(s, 2, Len(s)), old, new)

generate_search_queries(q, a) ==
    LET key_terms == ReplaceAll(ReplaceAll(ReplaceAll(ReplaceAll(q,
                         "?", ""), "how to", ""), "what is", ""),
                         "best practices", "guide")
        queries == <<q, q \o " 2024 2025">>
                   \o (IF Len(key_terms) > KEY_TERMS_MIN_LEN
                       THEN <<Strip(key_terms)>> ELSE <<>>)
    IN  Take(queries, MAX_QUERIES)

-----------------------------------------------------------------------------
(* LLMInterface (llm_interface.py) *)

\* What the generation backend answers: an exception, or a response with
\* message content and, for some backends, a citations attribute.
GenerationResponses ==
    [kind : {"error"}, reason : FailureReasons]
    \cup [kind : {"response"}, content : Contents]
    \cup [kind : {"response"}, content : Contents, citations : CitationLists]

\* A generator that swallows the backend's exception and answers nothing.
generate_answer_soft(provider, resp) ==
    IF resp.kind = "error"
    THEN [raised |-> FALSE, value |-> "", citations |-> <<>>]
    ELSE [raised |-> FALSE,
          value |-> Strip(resp.content),
          citations |-> IF provider = "perplexity"
                           /\ "citations" \in DOMAIN resp
                        THEN resp.citations ELSE <<>>]

generate_answer(provider, resp) ==
    IF resp.kind = "error"
    THEN [raised |-> TRUE,
          error |-> <<"Error generating answer", resp.reason>>,
          citations |-> <<>>]
    ELSE [raised |-> FALSE,
          value |-> Strip(resp.content),
          citations |-> IF provider = "perplexity"
                           /\ "citations" \in DOMAIN resp
                        THEN resp.citations ELSE <<>>]

convert_citations_to_sources(citations) ==
    [i \in 1..Len(citations) |->
        [title |-> "Source " \o ToString(i), snippet |-> "", url |-> citations[i]]]

RECURSIVE Join(_, _)
Join(parts, sep) ==
    IF parts = <<>> THEN ""
    ELSE IF Len(parts) = 1 THEN parts[1]
    ELSE parts[1] \o sep \o Join(Tail(parts), sep)

FormatSource(i, result) ==
    "[Source " \o ToString(i) \o "]\nTitle: "
        \o Get(result, "title", "Unknown")
        \o "\nURL: " \o Get(result, "url", Get(result, "link", "No URL"))
        \o "\nContent: "
        \o Get(result, "snippet", Get(result, "body", "No content"))
        \o "\n"

\* A listing of every source, whatever their number.
FormatSourcesUncapped(search_results) ==
    IF search_results = <<>> THEN "No sources available."
    ELSE Join([i \in 1..Len(search_results) |->
                  FormatSource(i, search_results[i])], "\n")

\* A listing without the marker for an empty source list.
FormatSourcesNoMarker(search_results) ==
    LET shown == Take(search_results, MAX_SEARCH_RESULTS)
    IN  Join([i \in 1..Len(shown) |-> FormatSource(i, shown[i])], "\n")

_format_sources(search_results) ==
    IF search_results = <<>> THEN "No sources available."
    ELSE LET shown == Take(search_results, MAX_SEARCH_RESULTS)
         IN  Join([i \in 1..Len(shown) |-> FormatSource(i, shown[i])], "\n")

_create_fallback_verification(a) ==
    [overall_confidence |-> FALLBACK_CONFIDENCE,
     claims |-> << [text |-> IF Len(a) > FALLBACK_TEXT_MAX
                             THEN SubSeq(a, 1, FALLBACK_TEXT_MAX) \o "..."
                             ELSE a,
                    status |-> "uncertain",
                    reason |-> "Verification system encountered an error",
                    sources |-> <<>>] >>]

\* json.loads: a text that is no JSON document raises JSONDecodeError; any
\* other text yields the value it denotes, whatever its shape.
json_loads(text) ==
    IF text.json THEN [raised |-> FALSE, value |-> text.value]
    ELSE [raised |-> TRUE]

\* A verifier that answers every failure with the fallback Verification.
verify_claims_soft(resp, a) ==
    IF resp.kind = "error" \/ ~ resp.has_content \/ ~ resp.content.json
    THEN [raised |-> FALSE,
          value |-> [type |-> "dict",
                     dict |-> _create_fallback_verification(a)]]
    ELSE [raised |-> FALSE, value |-> resp.content.value]

verify_claims(resp, a) ==
    IF resp.kind = "error"
    THEN [raised |-> TRUE, error |-> <<"Error verifying claims", resp.reason>>]
    ELSE IF ~ resp.has_content
    THEN [raised |-> TRUE, error |-> <<"Error verifying claims", "no content">>]
    ELSE LET parsed == json_loads(resp.content)
         IN  IF parsed.raised
             THEN [raised |-> FALSE,
                   value |-> [type |-> "dict",
                              dict |-> _create_fallback_verification(a)]]
             ELSE [raised |-> FALSE, value |-> parsed.value]

-----------------------------------------------------------------------------
(* VerificationEngine (verification_engine.py) *)

\* A deduplication that lets a later entry replace the one seen first.
RECURSIVE DeduplicateKeepLast(_)
DeduplicateKeepLast(sources) ==
    IF sources = <<>> THEN <<>>
    ELSE LET rest == DeduplicateKeepLast(Tail(sources))
             url == Get(Head(sources), "url", "")
         IN  IF url # "" /\ url \notin {Get(rest[i], "url", "") :
                                           i \in 1..Len(rest)}
             THEN <<Head(sources)>> \o rest ELSE rest

\* A deduplication that keeps the entries without a url.
RECURSIVE DeduplicateKeepEmpty(_)
DeduplicateKeepEmpty(sources) ==
    IF sources = <<>> THEN <<>>
    ELSE LET n == Len(sources)
             unique == DeduplicateKeepEmpty(SubSeq(sources, 1, n - 1))
             seen_urls == {Get(unique[i], "url", "") : i \in 1..Len(unique)}
             url == Get(sources[n], "url", "")
         IN  IF url = "" \/ url \notin seen_urls
             THEN Append(unique, sources[n]) ELSE unique

RECURSIVE _deduplicate_sources(_)
_deduplicate_sources(sources) ==
    IF sources = <<>> THEN <<>>
    ELSE LET n == Len(sources)
             unique == _deduplicate_sources(SubSeq(sources, 1, n - 1))
             seen_urls == {Get(unique[i], "url", "") : i \in 1..Len(unique)}
             url == Get(sources[n], "url", "")
         IN  IF url # "" /\ url \notin seen_urls
             THEN Append(unique, sources[n]) ELSE unique

Statuses == {"verified", "uncertain", "outdated", "unsupported", "contradicted"}

\* Thresholds compared with > where the code compares with >=.
RiskLevelStrict(confidence) ==
    IF confidence > RISK_LOW_MIN THEN "low"
    ELSE IF confidence > RISK_MEDIUM_MIN THEN "medium"
    ELSE "high"

RiskLevel(confidence) ==
    IF confidence >= RISK_LOW_MIN THEN "low"
    ELSE IF confidence >= RISK_MEDIUM_MIN THEN "medium"
    ELSE "high"

calculate_hallucination_risk(v) ==
    LET confidence == Get(v, "overall_confidence", DEFAULT_CONFIDENCE)
        claims == Get(v, "claims", <<>>)
        status_counts ==
            [s \in Statuses |->
                Cardinality({i \in 1..Len(claims) :
                                Get(claims[i], "status", "uncertain") = s})]
        risk_level == RiskLevel(confidence)
    IN  [confidence |-> confidence,
         risk_level |-> risk_level,
         risk_color |-> CASE risk_level = "low" -> "green"
                          [] risk_level = "medium" -> "yellow"
                          [] OTHER -> "red",
         risk_message |->
             CASE risk_level = "low" ->
                    "High confidence - Claims are well-supported"
               [] risk_level = "medium" ->
                    "Medium confidence - Some claims need verification"
               [] OTHER -> "Low confidence - Multiple unsupported claims",
         status_counts |-> status_counts,
         total_claims |-> Len(claims)]

-----------------------------------------------------------------------------
(* Inputs of the verification stage *)

VerifierDicts ==
    {[overall_confidence |-> 95,
      claims |-> << [text |-> "x is y", status |-> "verified",
                     reason |-> "matches source", sources |-> <<"a">>] >>],
     [overall_confidence |-> 30,
      claims |-> << [text |-> "x is y", status |-> "unsupported",
                     reason |-> "no source", sources |-> <<>>] >>],
     [overall_confidence |-> 150,
      claims |-> << [text |-> "x is y", status |-> "partially-verified",
                     reason |-> "in part", sources |-> <<"a">>] >>],
     [claims |-> <<>>]}

JsonValues == {[type |-> "list"]} \cup [type : {"dict"}, dict : VerifierDicts]

VerifierTexts == {[json |-> FALSE]} \cup [json : {TRUE}, value : JsonValues]

\* What the verification backend answers: an exception, a response whose
\* message has no content, or a response with a content text.
VerifierResponses ==
    [kind : {"error"}, reason : FailureReasons]
    \cup {[kind |-> "response", has_content |-> FALSE]}
    \cup [kind : {"response"}, has_content : {TRUE}, content : VerifierTexts]

-----------------------------------------------------------------------------
(* The state machine: one request at a time goes through a handler of      *)
(* api.py and the entry point of the engine it calls.                      *)

None == [none |-> TRUE]

\* Outbound calls of the current run: what the generation backend answered
\* (success, or the reason of its failure), how many searches were submitted,
\* and what the verification backend answered.
\* returned counts the searches that came back; plan and verify_args hold
\* the arguments generate_search_queries and verify_claims were called with,
\* and the source listing of the prompt.
NoCalls ==
    [generate |-> <<>>, plan |-> <<>>, search |-> 0, returned |-> 0,
     verify_args |-> <<>>, verify |-> <<>>]

GenerationOutcome(resp) ==
    IF resp.kind = "error" THEN [ok |-> FALSE, reason |-> resp.reason]
    ELSE [ok |-> TRUE]

RequestCleared ==
    /\ request = None
    /\ entry = "none" /\ question = "" /\ answer = ""
    /\ search_queries = <<>> /\ futures = <<>> /\ elapsed = 0
    /\ all_sources = <<>> /\ perplexity_sources = <<>>
    /\ unique_sources = <<>> /\ verification = None /\ results = None
    /\ risk_data = None /\ response = None /\ calls = NoCalls

Init ==
    /\ llm_provider \in {"openai", "perplexity"}
    /\ search_provider \in {"duckduckgo", "serpapi"}
    /\ last_citations = <<>>
    /\ pc = "idle"
    /\ RequestCleared

config == <<llm_provider, search_provider>>

ServerError(error) ==
    [status |-> SERVER_ERROR, detail |-> <<"Verification failed">> \o error]

\* POST /api/verify: the handler calls generate_and_verify.
VerifyQuestion(q) ==
    /\ pc = "idle"
    /\ request' = [question |-> q]
    /\ entry' = "generate_and_verify"
    /\ question' = request'.question
    /\ pc' = "generate"
    /\ UNCHANGED <<config, last_citations, answer, search_queries, futures,
                   elapsed, all_sources, perplexity_sources, unique_sources,
                   verification, results, risk_data, response, calls>>

\* A handler that trims the supplied answer before verifying it.
VerifyExistingStripped(q, a) ==
    /\ pc = "idle"
    /\ request' = [question |-> q, answer |-> a]
    /\ entry' = "verify_existing_answer"
    /\ question' = request'.question
    /\ answer' = Strip(request'.answer)
    /\ pc' = "plan"
    /\ UNCHANGED <<config, last_citations, search_queries, futures,
                   elapsed, all_sources, perplexity_sources, unique_sources,
                   verification, results, risk_data, response, calls>>

\* POST /api/verify-existing: the handler calls verify_existing_answer.
VerifyExisting(q, a) ==
    /\ pc = "idle"
    /\ request' = [question |-> q, answer |-> a]
    /\ entry' = "verify_existing_answer"
    /\ question' = request'.question
    /\ answer' = request'.answer
    /\ pc' = "plan"
    /\ UNCHANGED <<config, last_citations, search_queries, futures,
                   elapsed, all_sources, perplexity_sources, unique_sources,
                   verification, results, risk_data, response, calls>>

\* A first step that calls generate_answer a second time when it raised.
GenerateAnswerRetrying(resp) ==
    /\ pc = "generate"
    /\ LET out == generate_answer(llm_provider, resp)
       IN  /\ last_citations' = out.citations
           /\ IF out.raised /\ calls.generate = <<>>
              THEN UNCHANGED <<pc, answer, response>>
              ELSE IF out.raised
              THEN /\ response' = ServerError(out.error)
                   /\ pc' = "responded"
                   /\ UNCHANGED answer
              ELSE /\ answer' = out.value
                   /\ pc' = "plan"
                   /\ UNCHANGED response
    /\ calls' = [calls EXCEPT !.generate = Append(@, GenerationOutcome(resp))]
    /\ UNCHANGED <<config, request, entry, question, search_queries, futures,
                   elapsed, all_sources, perplexity_sources, unique_sources,
                   verification, results, risk_data>>

\* Step 1 of generate_and_verify. An exception of generate_answer leaves the
\* entry point and is turned into a 500 response by the handler.
GenerateAnswer(resp) ==
    /\ pc = "generate"
    /\ LET out == generate_answer(llm_provider, resp)
       IN  /\ last_citations' = out.citations
           /\ IF out.raised
              THEN /\ response' = ServerError(out.error)
                   /\ pc' = "responded"
                   /\ UNCHANGED answer
              ELSE /\ answer' = out.value
                   /\ pc' = "plan"
                   /\ UNCHANGED response
    /\ calls' = [calls EXCEPT !.generate = Append(@, GenerationOutcome(resp))]
    /\ UNCHANGED <<config, request, entry, question, search_queries, futures, elapsed,
                   all_sources, perplexity_sources, unique_sources,
                   verification, results, risk_data>>

\* generate_search_queries, then executor.submit of one search per query.
\* The pool has 3 workers and there are at most 2 queries, so every search
\* starts at once; how long each takes is up to the backend. Of a future
\* that is done and not yet handed to the loop, seq is its rank in the order
\* of completion and early tells that it was done when as_completed was
\* entered.
PlanAndSubmit(durations) ==
    /\ pc = "plan"
    /\ LET queries == generate_search_queries(question, answer)
       IN  /\ search_queries' = queries
           /\ futures' = [i \in 1..Len(queries) |->
                             [query |-> queries[i], state |-> "running",
                              duration |-> durations[i], result |-> <<>>,
                              provider_error |-> FALSE,
                              seq |-> 0, early |-> FALSE]]
           /\ calls' = [calls EXCEPT
                          !.plan = Append(@, [question |-> question,
                                              answer |-> answer]),
                          !.search = @ + Len(queries)]
    /\ all_sources' = <<>>
    /\ elapsed' = 0
    /\ pc' = "submitted"
    /\ UNCHANGED <<config, request, last_citations, entry, question, answer,
                   perplexity_sources, unique_sources, verification, results,
                   risk_data, response>>

\* The orchestrating thread reaches as_completed(future_to_query): the
\* futures that are done by now form the set it hands out first.
EnterLoop ==
    /\ pc = "submitted"
    /\ futures' = [i \in DOMAIN futures |->
                      [futures[i] EXCEPT !.early = futures[i].state = "done"]]
    /\ pc' = "searching"
    /\ UNCHANGED <<config, request, last_citations, entry, question, answer,
                   search_queries, elapsed, all_sources, perplexity_sources,
                   unique_sources, verification, results, risk_data, response,
                   calls>>

\* A worker thread finishes self.search.search(query).
SearchReturns(i, resp) ==
    /\ pc \in {"submitted", "searching"}
    /\ futures[i].state = "running"
    /\ elapsed >= futures[i].duration
    /\ futures' = [futures EXCEPT
                     ![i].state = "done",
                     ![i].result = search(search_provider, resp,
                                          MAX_SEARCH_RESULTS),
                     ![i].provider_error = resp.error,
                     ![i].seq = calls.returned + 1]
    /\ calls' = [calls EXCEPT !.returned = @ + 1]
    /\ UNCHANGED <<config, request, last_citations, pc, entry, question, answer,
                   search_queries, elapsed, all_sources, perplexity_sources,
                   unique_sources, verification, results, risk_data, response>>

\* Time passes while every search still running needs more of it.
Tick ==
    /\ pc = "searching"
    /\ \E i \in DOMAIN futures : futures[i].state = "running"
    /\ \A i \in DOMAIN futures :
          \/ futures[i].state = "consumed"
          \/ futures[i].state = "running" /\ futures[i].duration > elapsed
    /\ elapsed' = elapsed + TickStep
    /\ UNCHANGED <<config, request, last_citations, pc, entry, question, answer,
                   search_queries, futures, all_sources, perplexity_sources,
                   unique_sources, verification, results, risk_data, response,
                   calls>>

\* An iterator that hands out the futures in the order they were submitted.
YieldsInSubmissionOrder(i) ==
    /\ futures[i].state = "done"
    /\ \A j \in DOMAIN futures : j < i => futures[j].state = "consumed"

\* as_completed may hand out future i next: the futures that were done when
\* it was entered come first, in the order of a set, which is any order;
\* the others follow in the order they completed.
Yields(i) ==
    /\ futures[i].state = "done"
    /\ \/ futures[i].early
       \/ \A j \in DOMAIN futures :
              futures[j].state = "done" =>
                  ~ futures[j].early /\ futures[i].seq <= futures[j].seq

\* One iteration of `for future in as_completed(future_to_query)`: the
\* iterator hands out only futures that are done, so future.result(timeout)
\* returns at once and the results are appended to the merged list.
AsCompletedNext(i) ==
    /\ pc = "searching"
    /\ Yields(i)
    /\ all_sources' = all_sources \o futures[i].result
    /\ futures' = [futures EXCEPT ![i].state = "consumed",
                                  ![i].seq = 0, ![i].early = FALSE]
    /\ UNCHANGED <<config, request, last_citations, pc, entry, question, answer,
                   search_queries, elapsed, perplexity_sources,
                   unique_sources, verification, results, risk_data, response,
                   calls>>

\* A loop that stops after the first future handed out.
LoopEndedEarly == \E i \in DOMAIN futures : futures[i].state = "consumed"

\* as_completed is exhausted once every future was handed out.
LoopEnded == \A i \in DOMAIN futures : futures[i].state = "consumed"

\* A fallback that is taken whatever the searches returned.
NeedsFallbackAlways(sources) == TRUE

\* `if len(all_sources) == 0`: the searches contributed nothing.
NeedsFallback(sources) == Len(sources) = 0

\* The loop ends when every future was handed out; the executor shuts down,
\* the citation fallback runs and the merged list is deduplicated.
AggregationDone ==
    /\ pc = "searching"
    /\ LoopEnded
    /\ LET converted == convert_citations_to_sources(last_citations)
           fallback == NeedsFallback(all_sources) /\ converted # <<>>
           merged == IF fallback THEN all_sources \o converted
                     ELSE all_sources
       IN  /\ perplexity_sources' = IF NeedsFallback(all_sources)
                                    THEN converted ELSE <<>>
           /\ all_sources' = merged
           /\ unique_sources' = _deduplicate_sources(merged)
    /\ futures' = <<>>
    /\ elapsed' = 0
    /\ pc' = "verify"
    /\ UNCHANGED <<config, request, last_citations, entry, question, answer,
                   search_queries, verification, results, risk_data, response,
                   calls>>

Bundle(v) ==
    [question |-> question, answer |-> answer, verification |-> v,
     sources |-> unique_sources, search_queries |-> search_queries]

\* What entry point e does with the value v that verify_claims returned:
\* generate_and_verify reads verification.get('claims', []) before it
\* returns, which raises for a value that is no dictionary.
ReturnOf(e, v) ==
    IF e = "generate_and_verify" /\ v.type # "dict"
    THEN [raised |-> TRUE, error |-> <<"AttributeError">>]
    ELSE [raised |-> FALSE, value |-> Bundle(v)]

\* verify_claims and the rest of the entry point.
VerifyClaims(resp) ==
    /\ pc = "verify"
    /\ calls' = [calls EXCEPT
                   !.verify_args =
                       Append(@, [answer |-> answer,
                                  search_results |-> unique_sources,
                                  question |-> question,
                                  formatted_sources |->
                                      _format_sources(unique_sources)]),
                   !.verify = Append(@, resp)]
    /\ LET out == verify_claims(resp, answer)
       IN  IF out.raised
           THEN /\ response' = ServerError(out.error)
                /\ pc' = "responded"
                /\ UNCHANGED <<verification, results>>
           ELSE /\ verification' = out.value
                /\ LET ret == ReturnOf(entry, out.value)
                   IN  IF ret.raised
                       THEN /\ response' = ServerError(ret.error)
                            /\ pc' = "responded"
                            /\ UNCHANGED results
                       ELSE /\ results' = ret.value
                            /\ pc' = "returned"
                            /\ UNCHANGED response
    /\ UNCHANGED <<config, request, last_citations, entry, question, answer,
                   search_queries, futures, elapsed, all_sources,
                   perplexity_sources, unique_sources, risk_data>>

\* The handler scores the returned bundle and builds the response.
Respond ==
    /\ pc = "returned"
    /\ IF results.verification.type # "dict"
       THEN /\ response' = ServerError(<<"AttributeError">>)
            /\ UNCHANGED risk_data
       ELSE LET risk == calculate_hallucination_risk(results.verification.dict)
            IN  /\ risk_data' = risk
                /\ response' = [status |-> 200,
                                body |-> [question |-> results.question,
                                          answer |-> results.answer,
                                          verification |-> results.verification,
                                          sources |-> results.sources,
                                          search_queries |->
                                              results.search_queries,
                                          risk_data |-> risk]]
    /\ pc' = "responded"
    /\ UNCHANGED <<config, request, last_citations, entry, question, answer,
                   search_queries, futures, elapsed, all_sources,
                   perplexity_sources, unique_sources, verification, results,
                   calls>>

\* The response is sent; the locals of the request are gone, the engine and
\* its retained citations stay.
Finish ==
    /\ pc = "responded"
    /\ pc' = "idle"
    /\ request' = None
    /\ entry' = "none" /\ question' = "" /\ answer' = ""
    /\ search_queries' = <<>> /\ futures' = <<>> /\ elapsed' = 0
    /\ all_sources' = <<>> /\ perplexity_sources' = <<>>
    /\ unique_sources' = <<>> /\ verification' = None /\ results' = None
    /\ risk_data' = None /\ response' = None /\ calls' = NoCalls
    /\ UNCHANGED <<config, last_citations>>

Next ==
    \/ \E q \in Questions : VerifyQuestion(q)
    \/ \E q \in Questions, a \in SuppliedAnswers : VerifyExisting(q, a)
    \/ \E resp \in GenerationResponses : GenerateAnswer(resp)
    \/ \E d \in [1..MAX_QUERIES -> Durations] : PlanAndSubmit(d)
    \/ EnterLoop
    \/ \E i \in DOMAIN futures, resp \in ProviderResponses(search_provider) :
          SearchReturns(i, resp)
    \/ Tick
    \/ \E i \in DOMAIN futures : AsCompletedNext(i)
    \/ AggregationDone
    \/ \E resp \in VerifierResponses : VerifyClaims(resp)
    \/ Respond
    \/ Finish

Spec == Init /\ [][Next]_vars

-----------------------------------------------------------------------------
(* The risk scorer alone, over every Verification the verifier's JSON can  *)
(* denote within the bounds: calculate_hallucination_risk is applied to a  *)
(* verification dictionary drawn at the start.                             *)

RiskClaims ==
    [text : {"x is y"}, status : Statuses \cup {"partially-verified"}]
    \cup {[text |-> "x is y"]}

RiskInputs ==
    [overall_confidence : 0..MAX_CONFIDENCE,
     claims : SeqsUpTo(RiskClaims, MaxClaims)]
    \cup [claims : SeqsUpTo(RiskClaims, MaxClaims)]

InitRisk ==
    /\ llm_provider = "openai"
    /\ search_provider = "duckduckgo"
    /\ last_citations = <<>>
    /\ pc = "score"
    /\ request = None
    /\ entry = "none" /\ question = "" /\ answer = ""
    /\ search_queries = <<>> /\ futures = <<>> /\ elapsed = 0
    /\ all_sources = <<>> /\ perplexity_sources = <<>>
    /\ unique_sources = <<>> /\ results = None
    /\ risk_data = None /\ response = None /\ calls = NoCalls
    /\ verification \in [type : {"dict"}, dict : RiskInputs]

\* A scoring that consumes the claims of the dictionary it is given.
ScoreMutating ==
    /\ pc \in {"score", "scored", "rescored"}
    /\ risk_data' = calculate_hallucination_risk(verification.dict)
    /\ verification' = [verification EXCEPT !.dict.claims = <<>>]
    /\ pc' = IF pc = "score" THEN "scored" ELSE "rescored"
    /\ UNCHANGED <<config, request, last_citations, entry, question, answer,
                   search_queries, futures, elapsed, all_sources,
                   perplexity_sources, unique_sources, results, response,
                   calls>>

\* One call of calculate_hallucination_risk; it may be repeated on the same
\* dictionary any number of times.
Score ==
    /\ pc \in {"score", "scored", "rescored"}
    /\ risk_data' = calculate_hallucination_risk(verification.dict)
    /\ pc' = IF pc = "score" THEN "scored" ELSE "rescored"
    /\ UNCHANGED <<config, request, last_citations, entry, question, answer,
                   search_queries, futures, elapsed, all_sources,
                   perplexity_sources, unique_sources, verification, results,
                   response, calls>>

NextRisk == Score

SpecRisk == InitRisk /\ [][NextRisk]_vars

-----------------------------------------------------------------------------
(* generate_search_queries as a function: the planner is applied to a      *)
(* question and an answer drawn at the start. The request models put no    *)
(* constraint on the question, so the empty string is one of them.         *)

QuestionChars == {"a", " ", "?"}

PlanQuestions ==
    {Join(cs, "") : cs \in SeqsUpTo(QuestionChars, MaxQuestionLen)}
    \cup {"what is x?", "what is the best x?", "how to apply best practices?"}

InitPlan ==
    /\ llm_provider = "openai"
    /\ search_provider = "duckduckgo"
    /\ last_citations = <<>>
    /\ pc = "plan"
    /\ request = None
    /\ entry = "none"
    /\ question \in PlanQuestions
    /\ answer \in SuppliedAnswers \cup {""}
    /\ search_queries = <<>> /\ futures = <<>> /\ elapsed = 0
    /\ all_sources = <<>> /\ perplexity_sources = <<>>
    /\ unique_sources = <<>> /\ verification = None /\ results = None
    /\ risk_data = None /\ response = None /\ calls = NoCalls

Plan ==
    /\ pc = "plan"
    /\ search_queries' = generate_search_queries(question, answer)
    /\ calls' = [calls EXCEPT !.plan = Append(@, [question |-> question,
                                                  answer |-> answer])]
    /\ pc' = "planned"
    /\ UNCHANGED <<config, request, last_citations, entry, question, answer,
                   futures, elapsed, all_sources, perplexity_sources,
                   unique_sources, verification, results, risk_data,
                   response>>

NextPlan == Plan

SpecPlan == InitPlan /\ [][NextPlan]_vars

------------------------------------------------------------------------------
(* _format_sources as a function: the listing of the verification prompt   *)
(* is built for a source list drawn at the start, of any length up to      *)
(* MaxSources, in either key layout the function reads.                    *)

FormatItems ==
    {[title |-> "t", url |-> u, snippet |-> "s"] : u \in {"a", "b", "c", "d"}}
    \cup {[title |-> "t", link |-> "e", body |-> "s"]}

InitFormat ==
    /\ llm_provider = "openai"
    /\ search_provider = "duckduckgo"
    /\ last_citations = <<>>
    /\ pc = "format"
    /\ request = None
    /\ entry = "none" /\ question = "what is x?" /\ answer = "x is y."
    /\ search_queries = <<>> /\ futures = <<>> /\ elapsed = 0
    /\ all_sources = <<>> /\ perplexity_sources = <<>>
    /\ unique_sources \in SeqsUpTo(FormatItems, MaxSources)
    /\ verification = None /\ results = None
    /\ risk_data = None /\ response = None /\ calls = NoCalls

\* The first step of verify_claims: the source listing of the prompt.
FormatSources ==
    /\ pc = "format"
    /\ calls' = [calls EXCEPT
                   !.verify_args =
                       Append(@, [answer |-> answer,
                                  search_results |-> unique_sources,
                                  question |-> question,
                                  formatted_sources |->
                                      _format_sources(unique_sources)])]
    /\ pc' = "formatted"
    /\ UNCHANGED <<config, request, last_citations, entry, question, answer,
                   search_queries, futures, elapsed, all_sources,
                   perplexity_sources, unique_sources, verification, results,
                   risk_data, response>>

NextFormat == FormatSources

SpecFormat == InitFormat /\ [][NextFormat]_vars

------------------------------------------------------------------------------
(* _create_fallback_verification as a function: verify_claims gets a text *)
(* that is no JSON for an answer drawn at the start, of any length up to   *)
(* a few characters past the truncation limit.                             *)

RECURSIVE Repeat(_, _)
Repeat(c, n) ==
    IF n = 0 THEN ""
    ELSE LET half == Repeat(c, n \div 2)
         IN  half \o half \o (IF n % 2 = 1 THEN c ELSE "")

LongAnswers ==
    {Repeat(c, n) \o tail :
        c \in {"x", "y"}, n \in 0..(FALLBACK_TEXT_MAX + MaxOver - 1),
        tail \in {"", "."}}

InitFallback ==
    /\ llm_provider = "openai"
    /\ search_provider = "duckduckgo"
    /\ last_citations = <<>>
    /\ pc = "verify"
    /\ request = None
    /\ entry = "none" /\ question = "what is x?"
    /\ answer \in LongAnswers
    /\ search_queries = <<>> /\ futures = <<>> /\ elapsed = 0
    /\ all_sources = <<>> /\ perplexity_sources = <<>>
    /\ unique_sources = <<>> /\ verification = None /\ results = None
    /\ risk_data = None /\ response = None /\ calls = NoCalls

\* verify_claims for a verifier response whose content is no JSON.
VerifyUnparseable ==
    /\ pc = "verify"
    /\ LET resp == [kind |-> "response", has_content |-> TRUE,
                    content |-> [json |-> FALSE]]
       IN  /\ verification' = verify_claims(resp, answer).value
           /\ calls' = [calls EXCEPT !.verify = Append(@, resp)]
    /\ pc' = "verified"
    /\ UNCHANGED <<config, request, last_citations, entry, question, answer,
                   search_queries, futures, elapsed, all_sources,
                   perplexity_sources, unique_sources, results, risk_data,
                   response>>

NextFallback == VerifyUnparseable

SpecFallback == InitFallback /\ [][NextFallback]_vars

------------------------------------------------------------------------------
(* search as a function: one call for a max_results and a backend answer  *)
(* drawn by the call; the backend hands back as many results as it likes.  *)

BackendResponses(provider) ==
    [items : SeqsUpTo(IF provider = "duckduckgo" THEN DdgItems ELSE SerpItems,
                      MaxBackendItems),
     error : BOOLEAN]

InitSearch ==
    /\ llm_provider = "openai"
    /\ search_provider \in {"duckduckgo", "serpapi"}
    /\ last_citations = <<>>
    /\ pc = "search"
    /\ request = None
    /\ entry = "none" /\ question = "what is x?" /\ answer = "x is y."
    /\ search_queries = <<"what is x?">> /\ futures = <<>> /\ elapsed = 0
    /\ all_sources = <<>> /\ perplexity_sources = <<>>
    /\ unique_sources = <<>> /\ verification = None /\ results = None
    /\ risk_data = None /\ response = None /\ calls = NoCalls

\* self.search.search(query, max_results) and what the backend handed back.
SearchCall(resp, max_results) ==
    /\ pc = "search"
    /\ futures' = << [query |-> search_queries[1],
                      max_results |-> max_results,
                      backend_items |-> resp.items,
                      provider_error |-> resp.error,
                      result |-> search(search_provider, resp, max_results)] >>
    /\ calls' = [calls EXCEPT !.search = @ + 1, !.returned = @ + 1]
    /\ pc' = "searched"
    /\ UNCHANGED <<config, request, last_citations, entry, question, answer,
                   search_queries, elapsed, all_sources, perplexity_sources,
                   unique_sources, verification, results, risk_data,
                   response>>

NextSearch ==
    \E resp \in BackendResponses(search_provider),
       max_results \in 1..MAX_SEARCH_RESULTS : SearchCall(resp, max_results)

SpecSearch == InitSearch /\ [][NextSearch]_vars

------------------------------------------------------------------------------
(* Properties *)

AllConsumed ==
    /\ pc = "searching"
    /\ \A i \in DOMAIN futures : futures[i].state = "consumed"

RECURSIVE SumOfLengths(_)
SumOfLengths(S) ==
    IF S = {} THEN 0
    ELSE LET i == CHOOSE x \in S : TRUE
         IN  Len(futures[i].result) + SumOfLengths(S \ {i})

FirstIndex(seq, url) ==
    CHOOSE k \in 1..Len(seq) :
        seq[k].url = url /\ \A j \in 1..(k - 1) : seq[j].url # url

\* C1: the sources an entry point returns hold each url at most once; the
\* entry kept for a url is the first one with that url in the merged list,
\* kept entries stand in first-seen order, and every non-empty url of the
\* merged list is kept.
C1_DedupFirstSeen ==
    pc = "returned" =>
        LET src == results.sources
            merged == all_sources
        IN  /\ \A i, j \in 1..Len(src) : i # j => src[i].url # src[j].url
            /\ \A i \in 1..Len(src) :
                  \E k \in 1..Len(merged) :
                      /\ merged[k] = src[i]
                      /\ \A j \in 1..(k - 1) : merged[j].url # src[i].url
            /\ \A i, j \in 1..Len(src) :
                  i < j => FirstIndex(merged, src[i].url)
                               < FirstIndex(merged, src[j].url)
            /\ \A k \in 1..Len(merged) :
                  merged[k].url # ""
                      => \E i \in 1..Len(src) : src[i].url = merged[k].url

\* C1 witness: a bundle is returned whose merged list held two different
\* entries with the same non-empty url.
C1_Witness ==
    /\ pc = "returned"
    /\ \E i, j \in 1..Len(all_sources) :
          /\ i < j
          /\ all_sources[i].url = all_sources[j].url
          /\ all_sources[i].url # ""
          /\ all_sources[i] # all_sources[j]
    /\ Len(results.sources) = 1

\* C2: for every Verification, also one whose claims carry a missing or an
\* unknown status, the status counts of the RiskAssessment sum to the number
\* of claims, which is total_claims.
C2_StatusCountsSumToTotal ==
    pc = "scored" =>
        LET claims == Get(verification.dict, "claims", <<>>)
            counts == risk_data.status_counts
        IN  /\ risk_data.total_claims = Len(claims)
            /\ counts["verified"] + counts["uncertain"] + counts["outdated"]
                   + counts["unsupported"] + counts["contradicted"]
               = Len(claims)

\* C3: for every confidence c in 0..100 the risk level is low iff c >= 80,
\* medium iff 50 <= c < 80 and high iff c < 50, and the confidence returned
\* is the Verification's overall_confidence.
C3_RiskThresholds ==
    (pc = "scored" /\ "overall_confidence" \in DOMAIN verification.dict) =>
        LET c == verification.dict.overall_confidence
        IN  /\ risk_data.confidence = c
            /\ risk_data.risk_level \in {"low", "medium", "high"}
            /\ risk_data.risk_level = "low" <=> c >= 80
            /\ risk_data.risk_level = "medium" <=> (50 <= c /\ c < 80)
            /\ risk_data.risk_level = "high" <=> c < 50

\* C3 witness: a Verification with confidence exactly 80 was scored low.
C3_Witness ==
    /\ pc = "scored"
    /\ "overall_confidence" \in DOMAIN verification.dict
    /\ verification.dict.overall_confidence = 80
    /\ risk_data.risk_level = "low"

\* The content of a verifier response denotes the required structure: a JSON
\* object with the keys overall_confidence and claims.
IsStructuredOutput(resp) ==
    /\ resp.content.json
    /\ resp.content.value.type = "dict"
    /\ {"overall_confidence", "claims"} \subseteq DOMAIN resp.content.value.dict

\* C4: when the verifier's response content is not the required structure,
\* verify_claims does not raise and returns a Verification with confidence
\* 50 and exactly one claim, of status uncertain.
C4_UnparseableGivesFallback ==
    \A n \in DOMAIN calls.verify :
        LET resp == calls.verify[n]
        IN  (/\ resp.kind = "response"
             /\ resp.has_content
             /\ ~ IsStructuredOutput(resp)) =>
                /\ verification # None
                /\ verification.type = "dict"
                /\ Get(verification.dict, "overall_confidence", -1) = 50
                /\ Len(Get(verification.dict, "claims", <<>>)) = 1
                /\ verification.dict.claims[1].status = "uncertain"

\* C5: with one query slower than the per-query timeout and one that
\* returns at once, aggregation is over once the timeout has elapsed and
\* the merged list holds the results of the fast query only.
C5_AggregationBoundedByTimeout ==
    \A a, b \in DOMAIN futures :
        (/\ pc = "searching"
         /\ futures[a].duration > SEARCH_TIMEOUT
         /\ futures[b].duration = 0) =>
            /\ elapsed <= SEARCH_TIMEOUT
            /\ AllConsumed => all_sources = futures[b].result

\* C6: when no search result with a usable url was merged and citations are
\* retained, the returned sources are the citations, each converted to a
\* result with a synthesized title, an empty snippet and the citation url.
C6_FallbackWhenSearchSetEmpty ==
    pc = "returned" =>
        LET search_merged == IF perplexity_sources # <<>> THEN <<>>
                             ELSE all_sources
        IN  (/\ \A k \in 1..Len(search_merged) : search_merged[k].url = ""
             /\ last_citations # <<>>) =>
                results.sources =
                    [i \in 1..Len(last_citations) |->
                        [title |-> "Source " \o ToString(i),
                         snippet |-> "",
                         url |-> last_citations[i]]]

\* C7: when the generation call fails, the run ends in a single server-error
\* response that carries the failure reason; no query was planned or
\* submitted, the verifier was not called and no bundle exists.
C7_GenerationFailureAborts ==
    \A n \in DOMAIN calls.generate :
        ~ calls.generate[n].ok =>
            /\ pc = "responded"
            /\ entry = "generate_and_verify"
            /\ search_queries = <<>>
            /\ futures = <<>>
            /\ calls.search = 0
            /\ calls.verify = <<>>
            /\ verification = None
            /\ results = None
            /\ response.status = 500
            /\ "Error generating answer" \in Range(response.detail)
            /\ calls.generate[n].reason \in Range(response.detail)

\* C7 witness: a generate_and_verify run whose generation call failed for
\* an authentication error has been answered.
C7_Witness ==
    /\ pc = "responded"
    /\ entry = "generate_and_verify"
    /\ calls.generate = << [ok |-> FALSE, reason |-> "auth"] >>
    /\ response.status = 500

\* C8: when the verification call fails with a transport or authentication
\* error, verify_claims raises instead of returning the fallback, and the
\* run ends with that error and no bundle.
C8_VerifierErrorIsHard ==
    \A n \in DOMAIN calls.verify :
        calls.verify[n].kind = "error" =>
            /\ pc = "responded"
            /\ verification = None
            /\ results = None
            /\ risk_data = None
            /\ response.status = 500
            /\ "Error verifying claims" \in Range(response.detail)
            /\ calls.verify[n].reason \in Range(response.detail)

\* C8 witness: a run whose searches returned a source has been answered
\* after its verification call failed for a network error.
C8_Witness ==
    /\ pc = "responded"
    /\ unique_sources # <<>>
    /\ calls.verify = << [kind |-> "error", reason |-> "network"] >>
    /\ response.status = 500

\* C9: whenever the provider call of a search fails, also partway through
\* reading the provider's results, the search returns an empty sequence.
C9_SearchErrorGivesEmpty ==
    \A i \in DOMAIN futures :
        (futures[i].state \in {"done", "consumed"}
         /\ futures[i].provider_error) => futures[i].result = <<>>

\* C10: when the loop over the futures has ended, a query whose search
\* failed or outlasted the timeout has contributed nothing to the merged
\* list, and every result of every other query is in it.
C10_FailedQueryContributesNothing ==
    AllConsumed =>
        LET good == {i \in DOMAIN futures :
                        /\ ~ futures[i].provider_error
                        /\ futures[i].duration <= SEARCH_TIMEOUT}
        IN  /\ Len(all_sources) = SumOfLengths(good)
            /\ \A i \in good :
                  Range(futures[i].result) \subseteq Range(all_sources)

AggregationOver == pc \in {"verify", "returned", "responded"} /\ calls.search > 0

\* The verifier answered with a text verify_claims turns into a dictionary:
\* a JSON object, or a text that is no JSON and yields the fallback.
VerifierAnsweredDict(resp) ==
    /\ resp.kind = "response"
    /\ resp.has_content
    /\ resp.content.json => resp.content.value.type = "dict"

\* C11: when every query returned no result and no citation is retained,
\* the source set is empty without an error, the verifier is still called,
\* with the no-sources marker as its source listing, and when it answers
\* the entry point returns a complete bundle whose sources are empty.
C11_EmptySourceSetIsNoError ==
    (AggregationOver /\ all_sources = <<>>) =>
        /\ last_citations = <<>>
        /\ unique_sources = <<>>
        /\ pc = "verify" \/ Len(calls.verify_args) = 1
        /\ \A n \in DOMAIN calls.verify_args :
              /\ calls.verify_args[n].search_results = <<>>
              /\ calls.verify_args[n].formatted_sources
                     = "No sources available."
        /\ \A n \in DOMAIN calls.verify :
              VerifierAnsweredDict(calls.verify[n]) =>
                  /\ results # None
                  /\ DOMAIN results = {"question", "answer", "verification",
                                       "sources", "search_queries"}
                  /\ results.sources = <<>>
                  /\ pc = "responded" => response.status = 200

\* C11 witness: a bundle with no sources is returned after both searches
\* came back empty and the verifier was shown the no-sources marker.
C11_Witness ==
    /\ pc = "returned"
    /\ calls.returned = 2
    /\ all_sources = <<>>
    /\ results.sources = <<>>
    /\ calls.verify_args[1].formatted_sources = "No sources available."

\* C12: in a generate_and_verify run the generation call has returned
\* before a query is planned or submitted; when the verifier is called
\* every submitted search has come back and the source set is final: the
\* sources the verifier gets are the sources of the bundle.
C12_StagesInOrder ==
    /\ (entry = "generate_and_verify"
        /\ (calls.plan # <<>> \/ calls.search > 0 \/ search_queries # <<>>))
           => calls.generate = << [ok |-> TRUE] >> /\ pc # "generate"
    /\ (pc = "verify" \/ calls.verify_args # <<>>) =>
           /\ calls.returned = calls.search
           /\ calls.search = Len(search_queries)
           /\ Len(calls.plan) = 1
    /\ \A n \in DOMAIN calls.verify_args :
           /\ calls.verify_args[n].search_results = unique_sources
           /\ results # None =>
                  results.sources = calls.verify_args[n].search_results

\* C12 witness: generate_and_verify returned a bundle with a source after
\* both submitted searches came back.
C12_Witness ==
    /\ entry = "generate_and_verify"
    /\ pc = "returned"
    /\ calls.returned = 2
    /\ results.sources # <<>>

\* C13: a verify_existing_answer run makes no generation call, and the
\* answer given to the planner, given to the verifier and returned in the
\* bundle is the answer of the request, unchanged.
C13_ExistingAnswerAsIs ==
    entry = "verify_existing_answer" =>
        /\ calls.generate = <<>>
        /\ answer = request.answer
        /\ \A n \in DOMAIN calls.plan :
              calls.plan[n].answer = request.answer
        /\ \A n \in DOMAIN calls.verify_args :
              calls.verify_args[n].answer = request.answer
        /\ results # None => results.answer = request.answer

\* C13 witness: verify_existing_answer returned a bundle for an answer that
\* starts and ends with a blank.
C13_Witness ==
    /\ entry = "verify_existing_answer"
    /\ pc = "returned"
    /\ request.answer = " x is y. "
    /\ results.answer = " x is y. "

\* C14: once verify_claims has returned, the bundle this run returns is the
\* bundle the other entry point returns for the same question, answer,
\* sources, queries and verifier answer (none where that one raises); the
\* bundle's question is the request's and its queries are the planner's.
C14_EntryPointsAgree ==
    (pc \in {"returned", "responded"} /\ verification # None) =>
        LET other == IF entry = "generate_and_verify"
                     THEN "verify_existing_answer"
                     ELSE "generate_and_verify"
            ret == ReturnOf(other, verification)
        IN  /\ results = IF ret.raised THEN None ELSE ret.value
            /\ results # None =>
                  /\ results.question = request.question
                  /\ results.search_queries = search_queries

\* C15: for every question, the empty one included, and every answer,
\* generate_search_queries returns one or two queries, none of them the
\* empty string, and the first is the raw question.
C15_QueriesNonEmpty ==
    pc = "planned" =>
        /\ Len(search_queries) \in 1..MAX_QUERIES
        /\ search_queries[1] = question
        /\ \A i \in DOMAIN search_queries : search_queries[i] # ""

Contains(s, sub) ==
    \E i \in 1..(Len(s) - Len(sub) + 1) : SubSeq(s, i, i + Len(sub) - 1) = sub

Occurrences(s, sub) ==
    Cardinality({i \in 1..(Len(s) - Len(sub) + 1) :
                    SubSeq(s, i, i + Len(sub) - 1) = sub})

UrlShown(result) ==
    "URL: " \o Get(result, "url", Get(result, "link", "No URL")) \o "\n"

\* C16: for a source list of any length the listing of the prompt has one
\* numbered block per source for the first 3 sources, in order, and none
\* for a later one: a url that only occurs after the third entry is not in
\* the listing. The listing of an empty list is the no-sources marker.
C16_ListingCappedAtN ==
    pc = "formatted" =>
        LET args == calls.verify_args[1]
            srcs == args.search_results
            text == args.formatted_sources
            shown == IF Len(srcs) < 3 THEN Len(srcs) ELSE 3
        IN  /\ srcs = <<>> <=> text = "No sources available."
            /\ srcs # <<>> =>
                  /\ Occurrences(text, "[Source ") = shown
                  /\ \A i \in 1..shown :
                        Contains(text, "[Source " \o ToString(i)
                                       \o "]\nTitle: "
                                       \o srcs[i].title \o "\n"
                                       \o UrlShown(srcs[i]))
                  /\ \A i \in (shown + 1)..Len(srcs) :
                        (\A k \in 1..shown :
                            UrlShown(srcs[k]) # UrlShown(srcs[i]))
                        => ~Contains(text, UrlShown(srcs[i]))

\* C16 witness: a list of four sources with four urls was formatted.
C16_Witness ==
    /\ pc = "formatted"
    /\ Len(calls.verify_args[1].search_results) = 4
    /\ Cardinality({UrlShown(calls.verify_args[1].search_results[i]) :
                       i \in 1..4}) = 4
    /\ Occurrences(calls.verify_args[1].formatted_sources, "[Source ") = 3

\* C17: every dictionary verify_claims returns that has an
\* overall_confidence has one in 0..100, whatever JSON the verification
\* model answered, and so has every risk assessment made from it.
C17_ConfidenceInRange ==
    /\ (verification # None /\ verification.type = "dict"
        /\ "overall_confidence" \in DOMAIN verification.dict)
           => verification.dict.overall_confidence \in 0..MAX_CONFIDENCE
    /\ risk_data # None => risk_data.confidence \in 0..MAX_CONFIDENCE

\* C18: every claim of a dictionary verify_claims returns that has a status
\* has one of the five kinds: an unknown status of the model's answer was
\* turned into uncertain, or the answer was rejected.
C18_StatusIsOneOfFive ==
    (verification # None /\ verification.type = "dict") =>
        LET claims == Get(verification.dict, "claims", <<>>)
        IN  \A i \in DOMAIN claims :
               "status" \in DOMAIN claims[i] => claims[i].status \in Statuses

C20_SourcesHaveUrl ==
    results # None =>
        \A i \in DOMAIN results.sources :
            /\ "url" \in DOMAIN results.sources[i]
            /\ results.sources[i].url # ""

\* C20 witness: a bundle was returned with a source, from a merged list
\* that also held an entry without a url.
C20_Witness ==
    /\ pc = "returned"
    /\ results.sources # <<>>
    /\ \E i \in DOMAIN all_sources : Get(all_sources[i], "url", "") = ""

IsPrefix(t, a) == Len(t) <= Len(a) /\ SubSeq(a, 1, Len(t)) = t

\* C21: for an answer of any length the one claim of the fallback
\* Verification has a text of at most 200 characters that is an excerpt of
\* the answer, the whole answer when that has at most 200 characters, the
\* status uncertain, no sources, and the reason that the verification system
\* encountered an error.
C21_FallbackClaimText ==
    pc = "verified" =>
        /\ Len(verification.dict.claims) = 1
        /\ LET claim == verification.dict.claims[1]
           IN  /\ Len(claim.text) <= 200
               /\ IsPrefix(claim.text, answer)
               /\ Len(answer) <= 200 => claim.text = answer
               /\ claim.status = "uncertain"
               /\ claim.sources = <<>>
               /\ claim.reason = "Verification system encountered an error"

\* C22: in a run of either entry point, whatever fails, the generation
\* model is called at most once, the planner once, every planned query is
\* submitted to the search exactly once, and the verification model is
\* called at most once; a failed generation or verification call ends the
\* run.
C22_NoStageRetried ==
    /\ Len(calls.generate) <= 1
    /\ Len(calls.plan) <= 1
    /\ Len(calls.verify) <= 1
    /\ Len(calls.verify_args) = Len(calls.verify)
    /\ calls.search = Len(search_queries)
    /\ calls.returned <= calls.search
    /\ pc \in {"submitted", "searching"} =>
           /\ Len(futures) = Len(search_queries)
           /\ \A i \in DOMAIN futures : futures[i].query = search_queries[i]
    /\ (\E n \in DOMAIN calls.generate : ~ calls.generate[n].ok) =>
           pc = "responded" /\ calls.plan = <<>> /\ calls.verify = <<>>
    /\ (\E n \in DOMAIN calls.verify : calls.verify[n].kind = "error") =>
           pc = "responded"

\* C22 witness: a generate_and_verify run ended by a failure of the
\* verification call, after one generation call and one search per query.
C22_Witness ==
    /\ pc = "responded"
    /\ entry = "generate_and_verify"
    /\ Len(calls.generate) = 1
    /\ calls.search = 2
    /\ calls.returned = 2
    /\ Len(calls.verify) = 1
    /\ calls.verify[1].kind = "error"

InLoop == pc' = pc /\ pc \in {"submitted", "searching"}

\* A worker that finishes its search leaves the merged list alone, the loop
\* appends the results of the future it is handed as one block, and the
\* merged list holds the blocks of the futures handed out and nothing else.
MergeIsBlockwise ==
    /\ \A i \in DOMAIN futures :
          (InLoop /\ futures[i].state = "running"
           /\ futures'[i].state = "done") => all_sources' = all_sources
    /\ \A i \in DOMAIN futures :
          (InLoop /\ futures[i].state = "done"
           /\ futures'[i].state = "consumed")
              => all_sources' = all_sources \o futures[i].result
    /\ pc \in {"submitted", "searching"} =>
          Len(all_sources)
              = SumOfLengths({i \in DOMAIN futures :
                                 futures[i].state = "consumed"})
    /\ (pc = "searching" /\ pc' = "verify") =>
          \A i \in DOMAIN futures : futures[i].state = "consumed"

\* The block appended completed before every other block that is ready and
\* was not appended yet (a block without a result does not show in the list,
\* nor does the order of two equal blocks).
MergeInCompletionOrder ==
    \A i \in DOMAIN futures :
        (InLoop /\ futures[i].state = "done"
         /\ futures'[i].state = "consumed" /\ futures[i].result # <<>>)
            => \A j \in DOMAIN futures :
                  (futures[j].state = "done" /\ futures[j].result # <<>>
                   /\ futures[j].result # futures[i].result)
                      => futures[i].seq <= futures[j].seq

\* C23: under every interleaving of the searches only the orchestrating
\* thread appends to the merged list, the results of a query are appended
\* as one block in the order the query returned them, the blocks are in the
\* order the queries completed, and no result is lost or appended twice.
C23_CollectThenMerge ==
    [][MergeIsBlockwise /\ MergeInCompletionOrder]_vars

\* C24: for every max_results and either backend, whatever number of
\* results the backend hands back, search returns at most max_results
\* results and each of them has the fields title, snippet and url.
C24_SearchBoundedAndNormalized ==
    pc = "searched" =>
        /\ Len(futures[1].result) <= futures[1].max_results
        /\ \A k \in DOMAIN futures[1].result :
              DOMAIN futures[1].result[k] = {"title", "snippet", "url"}

CitationDerived(sources) ==
    \E i \in DOMAIN sources :
        Get(sources[i], "url", "") \in Range(last_citations)

\* C25: the citation-derived sources a run falls back to belong to the
\* answer it verifies: a verify_existing_answer run, whose answer the
\* caller supplied, neither shows the verifier nor returns a source built
\* from the citations retained for an answer generated by an earlier run.
C25_CitationsBelongToRun ==
    entry = "verify_existing_answer" =>
        /\ perplexity_sources = <<>>
        /\ ~ CitationDerived(unique_sources)
        /\ \A n \in DOMAIN calls.verify_args :
              ~ CitationDerived(calls.verify_args[n].search_results)
        /\ results # None => ~ CitationDerived(results.sources)

\* C26: when aggregation ends, every source of the source set is a result
\* of one of the run's searches or a converted retained citation, and never
\* both kinds: with at least one search result merged no source is built
\* from a citation, and citation-built sources occur only when the searches
\* returned no result at all. The bundle returns that source set.
C26_SourcesOfOneKind ==
    [][/\ (pc = "searching" /\ pc' = "verify") =>
             LET searched == UNION {Range(futures[i].result) :
                                       i \in DOMAIN futures}
                 cited == Range(convert_citations_to_sources(last_citations))
                 sources == Range(unique_sources')
             IN  /\ Range(all_sources) = searched
                 /\ sources \subseteq searched \cup cited
                 /\ searched # {} => sources \subseteq searched
                                     /\ sources \cap cited = {}
                 /\ sources \cap cited # {} =>
                        searched = {} /\ sources \subseteq cited
       /\ results' # None => results'.sources = unique_sources']_vars

\* C26 witness: a bundle with a source found by a search was returned while
\* citations were retained, and none of them is among its sources.
C26_Witness ==
    /\ pc = "returned"
    /\ last_citations # <<>>
    /\ results.sources # <<>>
    /\ perplexity_sources = <<>>
    /\ ~ CitationDerived(results.sources)

====
